---- MODULE Spec2Model ----
(***************************************************************************)
(* Model of sycamore_toast (src/src/lib.rs): the Toasts<T> store (a        *)
(* reactive signal holding Vec<(T, u8)>), its write-through to the         *)
(* "sycamore_toasts" cookie, the ToastsView memo of visible payloads, and  *)
(* the DefaultToastView dismissal tasks.                                   *)
(***************************************************************************)
EXTENDS Integers, Sequences, FiniteSets, TLC

\* ---------------------------------------------------------------- bounds
MaxLen == 2        \* add_toast is not taken on a store of MaxLen or more entries
MaxRank == 2       \* with_rank draws its argument from 0..MaxRank
MaxClears == 3     \* length of a counted run of consecutive clear_toasts

ViewSlots == 1..(MaxLen + 1)   \* indices a mounted view can have

\* ------------------------------------------------------------ program constants
U8Modulus == 256   \* ranks are u8

\* ---------------------------------------------------------------- payloads
\* A Toast is compared by all its fields (derive(PartialEq)); the close button
\* compares the id alone.  title/body/toast_type are folded into one field.
Ids == {"u1", "u2"}
Bodies == {"x", "y"}
Toast(id, body) == [id |-> id, body |-> body]
Payloads == {Toast("u1", "x"), Toast("u1", "y"), Toast("u2", "x")}

Entry(t, r) == [t |-> t, r |-> r]

VARIABLES
    toasts,       \* Toasts.toasts: the signal's Vec<(T, u8)>
    cookie,       \* the browser's "sycamore_toasts" cookie: [present, raw]
    new_toasts,   \* ToastsView's memo: the payloads handed to Indexed
    views,        \* the mounted DefaultToastView scopes, one per memo index
    stale,        \* the toast of one disposed scope whose timer is still to fire
    notes,        \* the entry lists the last call notified the subscribers with
    op            \* the call that produced this state (history)

vars == <<toasts, cookie, new_toasts, views, stale, notes, op>>

\* ------------------------------------------------------- cookie bridge
\* Text is a sequence of one-character tokens, except that a payload's id and
\* body strings and a percent-escape are one token each.
DigitChars == <<"0", "1", "2", "3", "4", "5", "6", "7", "8", "9">>
IsDigit(c) == \E d \in 1..10 : DigitChars[d] = c
DigitValue(c) == (CHOOSE d \in 1..10 : DigitChars[d] = c) - 1

\* serde_json's decimal rendering of a u8
U8ToDigits(n) ==
    IF n < 10 THEN <<DigitChars[n + 1]>>
    ELSE IF n < 100 THEN <<DigitChars[(n \div 10) + 1], DigitChars[(n % 10) + 1]>>
    ELSE <<DigitChars[(n \div 100) + 1], DigitChars[((n \div 10) % 10) + 1],
           DigitChars[(n % 10) + 1]>>

\* one (T, u8) tuple: [ {id body} , rank ]
JsonEntry(e) ==
    <<"[", "{", e.t.id, e.t.body, "}", ",">> \o U8ToDigits(e.r) \o <<"]">>

\* faulty variant: the array elements are written without their separator
RECURSIVE JsonEntries_NoComma(_)
JsonEntries_NoComma(es) ==
    IF es = <<>> THEN <<>> ELSE JsonEntry(es[1]) \o JsonEntries_NoComma(Tail(es))

RECURSIVE JsonEntries(_)
JsonEntries(es) ==
    IF es = <<>> THEN <<>>
    ELSE IF Len(es) = 1 THEN JsonEntry(es[1])
    ELSE JsonEntry(es[1]) \o <<",">> \o JsonEntries(Tail(es))

\* serde_json::to_string(&Vec<(T, u8)>)
ToJson(es) == <<"[">> \o JsonEntries(es) \o <<"]">>

\* a JSON number at position i, read as a u8: digits, no leading zero, <= 255
RECURSIVE DigitRun(_, _)
DigitRun(s, i) ==
    IF i <= Len(s) /\ IsDigit(s[i]) THEN <<s[i]>> \o DigitRun(s, i + 1) ELSE <<>>

RECURSIVE DigitsValue(_, _)
DigitsValue(ds, acc) ==
    IF ds = <<>> THEN acc ELSE DigitsValue(Tail(ds), acc * 10 + DigitValue(ds[1]))

ParseU8(s, i) ==
    LET ds == DigitRun(s, i)
        v == DigitsValue(ds, 0)
    IN  IF ds = <<>> \/ (Len(ds) > 1 /\ ds[1] = "0") \/ v >= U8Modulus
        THEN [ok |-> FALSE, val |-> 0, next |-> i]
        ELSE [ok |-> TRUE, val |-> v, next |-> i + Len(ds)]

\* the entries of the outer array from position i on, up to the closing bracket
RECURSIVE ParseEntriesAt(_, _, _)
ParseEntriesAt(s, i, acc) ==
    IF /\ i + 5 <= Len(s)
       /\ s[i] = "[" /\ s[i + 1] = "{"
       /\ s[i + 2] \in Ids /\ s[i + 3] \in Bodies
       /\ s[i + 4] = "}" /\ s[i + 5] = ","
    THEN LET n == ParseU8(s, i + 6)
             j == n.next
             got == Append(acc, Entry(Toast(s[i + 2], s[i + 3]), n.val))
         IN  IF ~n.ok \/ j + 1 > Len(s) \/ s[j] # "]"
             THEN [ok |-> FALSE, val |-> <<>>]
             ELSE IF s[j + 1] = "]" /\ j + 1 = Len(s) THEN [ok |-> TRUE, val |-> got]
             ELSE IF s[j + 1] = "," THEN ParseEntriesAt(s, j + 2, got)
             ELSE [ok |-> FALSE, val |-> <<>>]
    ELSE [ok |-> FALSE, val |-> <<>>]

\* serde_json::from_str::<Vec<(T, u8)>>
FromJson(s) ==
    IF s = <<"[", "]">> THEN [ok |-> TRUE, val |-> <<>>]
    ELSE IF Len(s) >= 2 /\ s[1] = "[" THEN ParseEntriesAt(s, 2, <<>>)
    ELSE [ok |-> FALSE, val |-> <<>>]

\* wasm_cookies percent-encodes the value it stores and decodes the value it
\* reads; decoding fails on an escape that is not valid UTF-8.
Escapes == {<<"[", "%5B">>, <<"]", "%5D">>, <<"{", "%7B">>, <<"}", "%7D">>,
            <<",", "%2C">>}
BadEscape == "%FF"

UrlEncodeTok(c) == IF \E p \in Escapes : p[1] = c
                   THEN (CHOOSE p \in Escapes : p[1] = c)[2] ELSE c
UrlDecodeTok(c) == IF \E p \in Escapes : p[2] = c
                   THEN (CHOOSE p \in Escapes : p[2] = c)[1] ELSE c

UrlEncode(text) == [i \in 1..Len(text) |-> UrlEncodeTok(text[i])]

\* Result<String, FromUrlEncodingError>
UrlDecode(raw) ==
    IF \E i \in 1..Len(raw) : raw[i] = BadEscape
    THEN [ok |-> FALSE, text |-> <<>>]
    ELSE [ok |-> TRUE, text |-> [i \in 1..Len(raw) |-> UrlDecodeTok(raw[i])]]

NoCookie == [present |-> FALSE, raw |-> <<>>]
SetCookie(raw) == [present |-> TRUE, raw |-> raw]

\* wasm_cookies::get: None | Some(Err(_)) | Some(Ok(c))
CookieGet(c) ==
    IF ~c.present THEN [some |-> FALSE, ok |-> FALSE, text |-> <<>>]
    ELSE LET d == UrlDecode(c.raw) IN [some |-> TRUE, ok |-> d.ok, text |-> d.text]

\* faulty variant: nothing is written for an empty list
save_to_cookies_SkipEmpty(es) ==
    IF es = <<>> THEN NoCookie ELSE SetCookie(UrlEncode(ToJson(es)))

\* Toasts::save_to_cookies: the cookie written for the entry list es
save_to_cookies(es) == SetCookie(UrlEncode(ToJson(es)))

\* Toasts::from_cookies
from_cookies(c) ==
    LET g == CookieGet(c)
    IN  IF g.some /\ g.ok
        THEN LET p == FromJson(g.text)
             IN  IF p.ok THEN [kind |-> "Ok", toasts |-> p.val]
                 ELSE [kind |-> "InvalidCookie", toasts |-> <<>>]
        ELSE [kind |-> "CookieNotPresent", toasts |-> <<>>]


\* ------------------------------------------------------------ the store
\* `*rank -= 1` on a u8 (wrapping, as in a build without overflow checks)
RankMinusOne(r) == (r + U8Modulus - 1) % U8Modulus

\* faulty variant: the retain test off by one
clear_retain_OffByOne(es) == LET Keep(e) == e.r > 1 IN SelectSeq(es, Keep)

\* clear_toasts, first statement: retain(|(_, r)| *r >= 1)
clear_retain(es) == LET Keep(e) == e.r >= 1 IN SelectSeq(es, Keep)

\* faulty variant: the loop stops lowering a rank at 1
clear_decrement_StopAtOne(es) ==
    [i \in 1..Len(es) |-> Entry(es[i].t, IF es[i].r > 1 THEN es[i].r - 1 ELSE es[i].r)]

\* clear_toasts, the loop: every rank -= 1
clear_decrement(es) == [i \in 1..Len(es) |-> Entry(es[i].t, RankMinusOne(es[i].r))]

\* Toasts::clear_toasts on the vector
clear_toasts(es) == clear_decrement(clear_retain(es))

\* faulty variant: the new entry is put in front
add_toast_Prepend(es, t) == <<Entry(t, 0)>> \o es

\* Toasts::add_toast on the vector: push((toast, 0))
add_toast(es, t) == Append(es, Entry(t, 0))

\* faulty variant: iter_mut() in place of last_mut(): every entry gets the rank
with_rank_All(es, rank) == [i \in 1..Len(es) |-> Entry(es[i].t, rank)]

\* faulty variant: first_mut() in place of last_mut()
with_rank_First(es, rank) ==
    [i \in 1..Len(es) |-> IF i = 1 THEN Entry(es[i].t, rank) ELSE es[i]]

\* faulty variant: the ranked entry is moved to the front of the vector
with_rank_MoveFront(es, rank) ==
    IF es = <<>> THEN es
    ELSE <<Entry(es[Len(es)].t, rank)>> \o SubSeq(es, 1, Len(es) - 1)

\* Toasts::with_rank on the vector: last_mut() gets the rank
with_rank(es, rank) ==
    IF es = <<>> THEN es
    ELSE [i \in 1..Len(es) |-> IF i = Len(es) THEN Entry(es[i].t, rank) ELSE es[i]]

\* faulty variant: only the first entry with the id is removed
remove_by_id_FirstOnly(es, id) ==
    LET hits == {i \in DOMAIN es : es[i].t.id = id}
    IN  IF hits = {} THEN es
        ELSE LET h == CHOOSE i \in hits : \A j \in hits : i <= j
             IN  SubSeq(es, 1, h - 1) \o SubSeq(es, h + 1, Len(es))

\* the close-button task: retain(|(t, _)| t.id != toast1.id)
remove_by_id(es, id) == LET Keep(e) == e.t.id # id IN SelectSeq(es, Keep)

\* faulty variant: the retain test inverted
remove_by_value_Inverted(es, v) == LET Keep(e) == e.t = v IN SelectSeq(es, Keep)

\* the auto-dismiss task: retain(|(t, _)| *t != toast1)
remove_by_value(es, v) == LET Keep(e) == e.t # v IN SelectSeq(es, Keep)

\* ------------------------------------------------------------- the view
\* faulty variant: the filter lets rank 1 through
VisibleOf_RankOne(es) ==
    LET Keep(e) == e.r <= 1
        kept == SelectSeq(es, Keep)
    IN  [i \in 1..Len(kept) |-> kept[i].t]

\* ToastsView's memo: filter(|(_, r)| *r == 0).map(|(t, _)| t).collect()
RECURSIVE VisibleOf(_)
VisibleOf(es) ==
    IF es = <<>> THEN <<>>
    ELSE (IF es[1].r = 0 THEN <<es[1].t>> ELSE <<>>) \o VisibleOf(Tail(es))

\* DefaultToastView on mount: the 5000 ms task is spawned, no click is pending
FreshView(t) == [toast |-> t, auto |-> "sleep5000", clicked |-> FALSE]

\* Indexed: the scope at index i survives while the payload at i is equal;
\* otherwise it is disposed (its scoped tasks with it) and a new one is made
Indexed(vs, m) ==
    [i \in 1..Len(m) |->
        IF i <= Len(vs) /\ vs[i].toast = m[i] THEN vs[i] ELSE FreshView(m[i])]

\* one notification of the signal's subscribers with the entry list es
Notify(vs, es) == Indexed(vs, VisibleOf(es))

\* the toasts of the scopes of vs that Indexed disposes when the memo becomes m
Disposed(vs, m) ==
    {vs[i].toast : i \in {j \in DOMAIN vs : j > Len(m) \/ vs[j].toast # m[j]}}

\* faulty variant: the task outlives its scope and does its removal
unscoped_task_after_dispose(es, t) == remove_by_id(es, t.id)

\* a dismissal task whose scope was disposed: spawn_local_scoped aborts it, so
\* when its timer fires the retain is not run and the entry list stays
scoped_task_after_dispose(es, t) == es

\* ---------------------------------------------------------------- history
NoToast == Toast("none", "none")

\* Disposed tasks are followed only in SpecLate (their firing changes nothing
\* in the store, so Spec leaves them out): one at a time, a newly disposed one
\* or the one followed already.
Untracked == Toast("untracked", "untracked")
Follow(old, gone) == IF old = Untracked THEN {old} ELSE gone \cup {old}
Op(name, t, r) ==
    [name |-> name, t |-> t, r |-> r, chained |-> FALSE, base |-> <<>>, k |-> 0,
     result |-> "none"]

\* ------------------------------------------------------------------ Init
InitCookies ==
    { NoCookie,
      save_to_cookies(<<>>),
      save_to_cookies(<<Entry(Toast("u1", "x"), 0), Entry(Toast("u2", "x"), 2),
                        Entry(Toast("u1", "y"), 1)>>),
      SetCookie(<<"{", "not json">>),
      SetCookie(<<BadEscape>>),
      SetCookie(UrlEncode(<<"[", "[", "{", "u1", "x", "}", ",", "0", "]">>)),
      SetCookie(UrlEncode(<<"[", "[", "{", "u1", "x", "}", ",", "2", "5", "6", "]", "]">>)) }

Init ==
    /\ toasts = <<>>
    /\ cookie \in InitCookies
    /\ new_toasts = <<>>
    /\ views = <<>>
    /\ stale = Untracked
    /\ notes = <<>>
    /\ op = Op("init", NoToast, 0)

\* the same start, with disposed tasks followed
InitLate ==
    /\ toasts = <<>>
    /\ cookie \in InitCookies
    /\ new_toasts = <<>>
    /\ views = <<>>
    /\ stale = NoToast
    /\ notes = <<>>
    /\ op = Op("init", NoToast, 0)

\* --------------------------------------------------------------- actions
AddToast(t) ==
    /\ Len(toasts) < MaxLen
    /\ toasts' = add_toast(toasts, t)
    /\ views' = Notify(views, toasts')
    /\ new_toasts' = VisibleOf(toasts')
    /\ stale' \in Follow(stale, Disposed(views, new_toasts'))
    /\ notes' = <<toasts'>>
    /\ cookie' = save_to_cookies(toasts')
    /\ op' = Op("add_toast", t, 0)

WithRank(rank) ==
    /\ toasts' = with_rank(toasts, rank)
    /\ views' = Notify(views, toasts')
    /\ new_toasts' = VisibleOf(toasts')
    /\ stale' \in Follow(stale, Disposed(views, new_toasts'))
    /\ notes' = <<toasts'>>
    /\ cookie' = save_to_cookies(toasts')
    /\ op' = [Op("with_rank", IF op.name = "add_toast" THEN op.t ELSE NoToast, rank)
                EXCEPT !.chained = (op.name = "add_toast")]

\* both statements of clear_toasts notify the subscribers
ClearToasts ==
    LET counted == op.name = "clear_toasts" /\ op.k < MaxClears
    IN  /\ toasts' = clear_toasts(toasts)
        /\ views' = Notify(Notify(views, clear_retain(toasts)), toasts')
        /\ new_toasts' = VisibleOf(toasts')
        /\ stale' \in Follow(stale, Disposed(views, VisibleOf(clear_retain(toasts))))
        /\ notes' = <<clear_retain(toasts), toasts'>>
        /\ cookie' = save_to_cookies(toasts')
        /\ op' = [Op("clear_toasts", NoToast, 0)
                    EXCEPT !.base = IF counted THEN op.base ELSE toasts,
                           !.k = IF counted THEN op.k + 1 ELSE 1]

\* a page load that builds its store with Toasts::from_cookies
FromCookies ==
    LET res == from_cookies(cookie)
    IN  /\ toasts' = IF res.kind = "Ok" THEN res.toasts ELSE toasts
        /\ views' = IF res.kind = "Ok" THEN Notify(<<>>, toasts') ELSE views
        /\ new_toasts' = VisibleOf(toasts')
        /\ stale' = IF res.kind = "Ok" /\ stale # Untracked THEN NoToast ELSE stale
        /\ notes' = <<>>
        /\ cookie' = cookie
        /\ op' = [Op("from_cookies", NoToast, 0) EXCEPT !.result = res.kind]

\* the auto-dismiss task of view i passes its 5000 ms timer and adds the class
AutoFade(i) ==
    /\ i \in DOMAIN views
    /\ views[i].auto = "sleep5000"
    /\ views' = [views EXCEPT ![i].auto = "sleep200"]
    /\ op' = Op("view", NoToast, 0)
    /\ notes' = <<>>
    /\ UNCHANGED <<toasts, cookie, new_toasts, stale>>

\* ... and 200 ms later removes by value
AutoRemove(i) ==
    /\ i \in DOMAIN views
    /\ views[i].auto = "sleep200"
    /\ toasts' = remove_by_value(toasts, views[i].toast)
    /\ views' = Notify(views, toasts')
    /\ new_toasts' = VisibleOf(toasts')
    /\ stale' \in Follow(stale, Disposed(views, new_toasts'))
    /\ notes' = <<toasts'>>
    /\ op' = Op("auto_remove", views[i].toast, 0)
    /\ UNCHANGED cookie

\* a click on the close button of view i spawns a task that adds the class;
\* every such task of one view does the same removal, so the view records only
\* whether one is pending (a further click changes nothing here)
Click(i) ==
    /\ i \in DOMAIN views
    /\ ~views[i].clicked
    /\ views' = [views EXCEPT ![i].clicked = TRUE]
    /\ op' = Op("view", NoToast, 0)
    /\ notes' = <<>>
    /\ UNCHANGED <<toasts, cookie, new_toasts, stale>>

\* ... and 200 ms later removes by id
ClickRemove(i) ==
    /\ i \in DOMAIN views
    /\ views[i].clicked
    /\ toasts' = remove_by_id(toasts, views[i].toast.id)
    /\ views' = Notify(views, toasts')
    /\ new_toasts' = VisibleOf(toasts')
    /\ stale' \in Follow(stale, Disposed(views, new_toasts'))
    /\ notes' = <<toasts'>>
    /\ op' = Op("click_remove", views[i].toast, 0)
    /\ UNCHANGED cookie

\* the timer of the followed disposed task fires
LateFire ==
    /\ stale \notin {NoToast, Untracked}
    /\ toasts' = scoped_task_after_dispose(toasts, stale)
    /\ views' = Notify(views, toasts')
    /\ new_toasts' = VisibleOf(toasts')
    /\ stale' = NoToast
    /\ notes' = IF toasts' = toasts THEN <<>> ELSE <<toasts'>>
    /\ op' = Op("late_fire", stale, 0)
    /\ UNCHANGED cookie

Next ==
    \/ \E t \in Payloads : AddToast(t)
    \/ \E rank \in 0..MaxRank : WithRank(rank)
    \/ ClearToasts
    \/ FromCookies
    \/ \E i \in ViewSlots : AutoFade(i)
    \/ \E i \in ViewSlots : AutoRemove(i)
    \/ \E i \in ViewSlots : Click(i)
    \/ \E i \in ViewSlots : ClickRemove(i)

Spec == Init /\ [][Next]_vars

\* the `overflow-checks` setting of the build: on (dev profile), `*rank -= 1`
\* on a rank 0 panics; off (release profile), it wraps
OverflowChecks == {TRUE, FALSE}

Underflowed == op.result \in {"panic", "wrapped"}

\* clear_toasts while a subscriber reacts: the first statement's notification
\* unmounts the views, and code run by an unmounted view (a cleanup of a
\* caller-supplied view) calls add_toast(t) on the store before the loop of
\* clear_toasts takes its own modify() guard; the loop then meets (t, 0)
ClearToastsReacting(t, checks) ==
    LET kept == clear_retain(toasts)
        reacted == add_toast(kept, t)
        seen == Notify(Notify(views, kept), reacted)
    IN  /\ views # <<>>
        /\ Len(kept) < MaxLen
        /\ toasts' = IF checks THEN reacted ELSE clear_decrement(reacted)
        /\ views' = IF checks THEN seen ELSE Notify(seen, toasts')
        /\ new_toasts' = VisibleOf(toasts')
        /\ stale' \in Follow(stale, Disposed(views, VisibleOf(kept)))
        /\ notes' = IF checks THEN <<kept, reacted>> ELSE <<kept, reacted, toasts'>>
        /\ cookie' = save_to_cookies(toasts')
        /\ op' = [Op("clear_toasts", t, 0)
                    EXCEPT !.result = IF checks THEN "panic" ELSE "wrapped"]

\* the program with such a subscriber, followed up to the first underflow
NextReact ==
    \/ \E t \in Payloads : ~Underflowed /\ AddToast(t)
    \/ \E rank \in 0..MaxRank : ~Underflowed /\ WithRank(rank)
    \/ ~Underflowed /\ ClearToasts
    \/ ~Underflowed /\ FromCookies
    \/ \E i \in ViewSlots : ~Underflowed /\ AutoFade(i)
    \/ \E i \in ViewSlots : ~Underflowed /\ AutoRemove(i)
    \/ \E i \in ViewSlots : ~Underflowed /\ Click(i)
    \/ \E i \in ViewSlots : ~Underflowed /\ ClickRemove(i)
    \/ \E t \in Payloads, checks \in OverflowChecks :
          ~Underflowed /\ ClearToastsReacting(t, checks)

SpecReact == Init /\ [][NextReact]_vars

\* the program with the timers of disposed tasks followed until they fire
NextLate == Next \/ LateFire

SpecLate == InitLate /\ [][NextLate]_vars

\* a timer that stays pending fires: each wait of the auto-dismiss task of a
\* mounted view ends
TimersFire ==
    \A i \in ViewSlots : WF_vars(AutoFade(i)) /\ WF_vars(AutoRemove(i))

SpecLive == Init /\ [][Next]_vars /\ TimersFire

\* ================================================================ claims
Range(q) == {q[i] : i \in DOMAIN q}
StoreOps == {"add_toast", "with_rank", "clear_toasts"}
RemovalOps == {"auto_remove", "click_remove"}

\* the indices of es whose entry satisfies the rank test, and the position an
\* index gets when only those indices are kept
RankAtLeast(es, k) == {i \in DOMAIN es : es[i].r >= k}
PosIn(S, i) == Cardinality({j \in S : j <= i})

\* C1: the memo of ToastsView holds exactly the payloads of the rank-0 entries,
\* in the order of the entry list: as many elements as there are rank-0
\* entries, the n-th of them being the payload of the n-th rank-0 entry.
C1_VisibleIsRankZero ==
    LET zero == {i \in DOMAIN toasts : toasts[i].r = 0}
    IN  /\ Len(new_toasts) = Cardinality(zero)
        /\ \A i \in zero : new_toasts[PosIn(zero, i)] = toasts[i].t

C1_Witness ==
    /\ op.name \in RemovalOps
    /\ \E i, j \in DOMAIN toasts : i < j /\ toasts[i].r >= 1 /\ toasts[j].r = 0
    /\ new_toasts # <<>>

\* C2: a step of add_toast(t) leaves every earlier entry where and as it was,
\* adds the one entry (t, 0) after them, and the memo then ends with t.
C2_AddAppends ==
    [][op'.name = "add_toast" =>
        /\ Len(toasts') = Len(toasts) + 1
        /\ \A i \in DOMAIN toasts : toasts'[i] = toasts[i]
        /\ toasts'[Len(toasts')] = Entry(op'.t, 0)
        /\ new_toasts' # <<>>
        /\ new_toasts'[Len(new_toasts')] = op'.t]_vars

C2_Witness ==
    /\ op.name = "add_toast"
    /\ Len(toasts) >= 2
    /\ toasts[1].r >= 1

\* C3: a step of clear_toasts keeps exactly the entries of rank > 0, in their
\* order and with their payloads, each with its rank lowered by exactly 1.
C3_ClearDropsZeroDecrementsRest ==
    [][op'.name = "clear_toasts" =>
        LET keep == RankAtLeast(toasts, 1)
        IN  /\ Len(toasts') = Cardinality(keep)
            /\ \A i \in keep :
                   toasts'[PosIn(keep, i)] = Entry(toasts[i].t, toasts[i].r - 1)]_vars

C3_Witness ==
    /\ op.name = "clear_toasts"
    /\ op.k = 1
    /\ Len(op.base) > Len(toasts)
    /\ Len(toasts) >= 2

\* C4: after k clear_toasts calls in a row on the entry list `base`, the store
\* holds exactly the entries of base whose rank was >= k, in their order, each
\* with rank r - k (so an entry of rank r is visible after r calls and gone
\* after r + 1).
C4_AfterKClears ==
    op.name = "clear_toasts" =>
        LET keep == RankAtLeast(op.base, op.k)
        IN  /\ Len(toasts) = Cardinality(keep)
            /\ \A i \in keep :
                   toasts[PosIn(keep, i)] = Entry(op.base[i].t, op.base[i].r - op.k)

C4_Witness ==
    /\ op.name = "clear_toasts"
    /\ op.k = 2
    /\ \E i \in DOMAIN op.base : op.base[i].r = 2
    /\ \E i \in DOMAIN op.base : op.base[i].r < 2
    /\ new_toasts # <<>>

\* C5: a step of with_rank(r) on a non-empty store changes nothing but the rank
\* of the last entry, which becomes r.
C5_WithRankLastOnly ==
    [][(op'.name = "with_rank" /\ toasts # <<>>) =>
        /\ Len(toasts') = Len(toasts)
        /\ \A i \in 1..(Len(toasts) - 1) : toasts'[i] = toasts[i]
        /\ toasts'[Len(toasts)] = Entry(toasts[Len(toasts)].t, op'.r)]_vars

C5_Witness ==
    /\ op.name = "with_rank"
    /\ op.r > 0
    /\ Len(toasts) >= 2
    /\ toasts[1].r # op.r

\* C6 as claimed: after add_toast(t).with_rank(r) with r > 0, t is the last
\* entry with rank r and t does not occur in the visible projection.
C6_ChainedHidden_Original ==
    (op.name = "with_rank" /\ op.chained /\ op.r > 0) =>
        /\ toasts # <<>>
        /\ toasts[Len(toasts)] = Entry(op.t, op.r)
        /\ op.t \notin Range(new_toasts)

\* C6 amended: after add_toast(t).with_rank(r) with r > 0, t is the last entry
\* with rank r, the visible projection has one element per rank-0 entry before
\* that last entry, and t occurs in it only if an earlier entry with an equal
\* payload has rank 0.
C6_ChainedHidden ==
    (op.name = "with_rank" /\ op.chained /\ op.r > 0) =>
        /\ toasts # <<>>
        /\ toasts[Len(toasts)] = Entry(op.t, op.r)
        /\ Len(new_toasts) =
               Cardinality({i \in 1..(Len(toasts) - 1) : toasts[i].r = 0})
        /\ (op.t \in Range(new_toasts) =>
               \E i \in 1..(Len(toasts) - 1) : toasts[i] = Entry(op.t, 0))

C6_Witness ==
    /\ op.name = "with_rank" /\ op.chained /\ op.r > 0
    /\ new_toasts # <<>>
    /\ op.t \notin Range(new_toasts)

\* C7: when add_toast, with_rank or clear_toasts has returned, the cookie is
\* present and its value decodes (percent-decoding, then JSON) to the entry
\* list the store holds.
C7_WriteThrough ==
    op.name \in StoreOps =>
        /\ cookie.present
        /\ UrlDecode(cookie.raw).ok
        /\ FromJson(UrlDecode(cookie.raw).text) = [ok |-> TRUE, val |-> toasts]

C7_Witness ==
    /\ op.name = "clear_toasts"
    /\ Len(toasts) >= 2
    /\ \E i \in DOMAIN toasts : toasts[i].r >= 1

\* C8 as claimed: whenever an API call or a default-view step has happened and
\* none is in progress, from_cookies on the persisted cookie gives a store
\* whose entry list is the current one.
C8_RoundTripAfterAnyOp ==
    op.name \in StoreOps \cup RemovalOps \cup {"view"} =>
        from_cookies(cookie) = [kind |-> "Ok", toasts |-> toasts]

\* C9 as claimed: from_cookies answers CookieNotPresent exactly when there is
\* no cookie, InvalidCookie when there is one that does not decode (at either
\* stage), and Ok with the decoded entries otherwise.
CookieDecodes(c) == UrlDecode(c.raw).ok /\ FromJson(UrlDecode(c.raw).text).ok

C9_ClassifiesCookie ==
    op.name = "from_cookies" =>
        /\ (op.result = "CookieNotPresent") <=> ~cookie.present
        /\ (cookie.present /\ ~CookieDecodes(cookie)) => op.result = "InvalidCookie"
        /\ (cookie.present /\ CookieDecodes(cookie)) =>
               /\ op.result = "Ok"
               /\ toasts = FromJson(UrlDecode(cookie.raw).text).val

\* C10: removing by id or by value a second time changes nothing, on the step
\* that removed and for every id and value in every store state; removing an
\* id or value no entry has leaves the list as it is.
C10_RemovalIdempotent ==
    /\ op.name = "click_remove" => remove_by_id(toasts, op.t.id) = toasts
    /\ op.name = "auto_remove" => remove_by_value(toasts, op.t) = toasts
    /\ \A id \in Ids :
          /\ remove_by_id(remove_by_id(toasts, id), id) = remove_by_id(toasts, id)
          /\ (\A i \in DOMAIN toasts : toasts[i].t.id # id) =>
                 remove_by_id(toasts, id) = toasts
    /\ \A v \in Payloads :
          /\ remove_by_value(remove_by_value(toasts, v), v) = remove_by_value(toasts, v)
          /\ (\A i \in DOMAIN toasts : toasts[i].t # v) =>
                 remove_by_value(toasts, v) = toasts

C10_Witness ==
    /\ op.name = "click_remove"
    /\ toasts # <<>>
    /\ \E i \in DOMAIN toasts : toasts[i].r = 0

\* C11 as claimed: a close-button removal takes at most one entry out of the
\* list and leaves every entry with another id where and as it was.
OtherIds(es, id) == LET Keep(e) == e.t.id # id IN SelectSeq(es, Keep)

C11_RemoveByIdAtMostOne ==
    [][op'.name = "click_remove" =>
        /\ Len(toasts') >= Len(toasts) - 1
        /\ OtherIds(toasts', op'.t.id) = OtherIds(toasts, op'.t.id)]_vars

\* C12: with timers firing, no user action is needed for a rendered toast to
\* leave the store: a mounted view whose task is in its 5000 ms wait gets the
\* fade class (or is unmounted), a mounted view with the fade class is
\* unmounted (or remounted anew for a later, equal toast), the removal the
\* auto-dismiss task does comes from a view that had the fade class and leaves
\* no entry of that toast in the list, and every view mounted when
\* clear_toasts returns is freshly mounted, so the waits of a revealed toast
\* start at its reveal.
Mounted(i, t) == i \in DOMAIN views /\ views[i].toast = t

C12_AutoDismiss ==
    /\ \A i \in ViewSlots, t \in Payloads :
          (Mounted(i, t) /\ views[i].auto = "sleep5000") ~>
              (~Mounted(i, t) \/ views[i].auto = "sleep200")
    /\ \A i \in ViewSlots, t \in Payloads :
          (Mounted(i, t) /\ views[i].auto = "sleep200") ~>
              (~Mounted(i, t) \/ views[i].auto = "sleep5000")
    /\ [][op'.name = "auto_remove" =>
            /\ \E i \in DOMAIN views :
                  views[i].toast = op'.t /\ views[i].auto = "sleep200"
            /\ \A i \in DOMAIN toasts' : toasts'[i].t # op'.t]_vars
    /\ [][op'.name = "clear_toasts" =>
            \A i \in DOMAIN views' : views'[i] = FreshView(new_toasts'[i])]_vars

C12_Witness ==
    /\ op.name = "auto_remove"
    /\ op.t \notin Range(new_toasts)
    /\ \E i \in DOMAIN toasts : toasts[i].r >= 1

\* C13 as claimed: with_rank and clear_toasts on an empty store leave the list
\* and the projection empty and the cookie as it was: present or missing as
\* before, and read back by from_cookies as before.
C13_EmptyNoOp_Original ==
    [][(op'.name \in {"with_rank", "clear_toasts"} /\ toasts = <<>>) =>
        /\ toasts' = <<>>
        /\ new_toasts' = <<>>
        /\ cookie'.present = cookie.present
        /\ from_cookies(cookie') = from_cookies(cookie)]_vars

\* C13: with_rank and clear_toasts on an empty store leave the list and the
\* projection empty and mount no view, and they write the cookie: whatever it
\* held, afterwards it is present and from_cookies reads the empty list.
C13_EmptyNoOp ==
    [][(op'.name \in {"with_rank", "clear_toasts"} /\ toasts = <<>>) =>
        /\ toasts' = <<>>
        /\ new_toasts' = <<>>
        /\ views' = <<>>
        /\ cookie'.present
        /\ from_cookies(cookie') = [kind |-> "Ok", toasts |-> <<>>]]_vars

C13_Witness ==
    /\ op.name = "with_rank"
    /\ toasts = <<>>
    /\ from_cookies(cookie) = [kind |-> "Ok", toasts |-> <<>>]

\* C14: the operations keep the order of the entries. add_toast keeps the old
\* list as a prefix, with_rank keeps every payload at its position, and
\* clear_toasts and the removals of the default view leave the payloads that
\* stay in the order they had; the visible projection follows the list order.
PayloadsOf(es) == [i \in DOMAIN es |-> es[i].t]

RECURSIVE IsSubseq(_, _)
IsSubseq(a, b) ==
    IF a = <<>> THEN TRUE
    ELSE IF b = <<>> THEN FALSE
    ELSE IF Head(a) = Head(b) THEN IsSubseq(Tail(a), Tail(b))
    ELSE IsSubseq(a, Tail(b))

C14_OrderPreserved ==
    [][/\ op'.name = "add_toast" => SubSeq(toasts', 1, Len(toasts)) = toasts
       /\ op'.name = "with_rank" => PayloadsOf(toasts') = PayloadsOf(toasts)
       /\ op'.name = "clear_toasts" =>
              IsSubseq(PayloadsOf(toasts'), PayloadsOf(toasts))
       /\ op'.name \in RemovalOps => IsSubseq(toasts', toasts)
       /\ IsSubseq(new_toasts', PayloadsOf(toasts'))]_vars

C14_Witness ==
    /\ op.name \in RemovalOps \cup {"clear_toasts"}
    /\ Len(toasts) = 2
    /\ toasts[1].t # toasts[2].t

\* C15 as claimed: the subscribers of the signal are notified by clear_toasts
\* only with the list the call started from or the list it ends with, never
\* with the filtered list whose ranks are not decremented yet.
C15_ClearAtomic ==
    (op.name = "clear_toasts" /\ op.k = 1) =>
        \A i \in DOMAIN notes : notes[i] \in {op.base, toasts}

\* C16 as claimed: in add_toast(t).with_rank(r) with r > 0, before with_rank
\* acts no subscriber has been notified of a list that ends with (t, 0), and
\* the visible projection and the mounted views are those the call ends with.
C16_ChainedOneTransition ==
    [][(op'.name = "with_rank" /\ op'.chained /\ op'.r > 0) =>
        /\ \A i \in DOMAIN notes :
              notes[i] = <<>> \/ notes[i][Len(notes[i])] # Entry(op'.t, 0)
        /\ new_toasts = new_toasts'
        /\ views = views']_vars

\* C17 as claimed: when a removal of the default view takes a rendered toast
\* out of the list, the view of that toast has the fade class: its own task
\* passed the 5000 ms wait or its close button was clicked.
C17_FadeBeforeRemoval ==
    [][op'.name \in RemovalOps =>
        \A j \in DOMAIN views :
            views[j].toast \notin Range(new_toasts') =>
                (views[j].auto = "sleep200" \/ views[j].clicked)]_vars

HiddenOf(es) == LET Keep(e) == e.r >= 1 IN SelectSeq(es, Keep)

C19_HiddenStays ==
    [][op'.name \in StoreOps \cup RemovalOps \cup {"view"} =>
        IsSubseq(PayloadsOf(HiddenOf(toasts)), PayloadsOf(toasts'))]_vars

\* C20 as claimed: clear_toasts never panics and never wraps a rank, also when
\* a subscriber reacts to its notifications: after it, no rank is 255.
C20_NoUnderflow ==
    op.name = "clear_toasts" =>
        /\ ~Underflowed
        /\ \A i \in DOMAIN toasts : toasts[i].r < U8Modulus - 1

====
